---- MODULE Spec2Model ----
(***************************************************************************)
(* Card Hub (yugioh/js/vampire.js and the older copy in main.js): the deck *)
(* filter engine, the hand tester (draw / shuffle), the drawn-count ledger *)
(* with its display projection, the deck buttons with their asynchronous   *)
(* loads, the collapsible sections, the theme toggle, the listeners of the *)
(* filter bar and the lightbox.                                            *)
(*                                                                         *)
(* Strings are sequences of one-character strings so that toLowerCase,     *)
(* includes, split, trim and join are computed, not assumed.  An optional  *)
(* number (id, qty, level, rank, link, a level bound) is a sequence of     *)
(* length 0 (null / undefined / empty input) or 1.  An absent string field *)
(* is the empty string: every modelled reader goes through norm() or       *)
(* asArray(), which treat null, undefined and "" alike.                    *)
(***************************************************************************)
EXTENDS Integers, Sequences, FiniteSets, TLC

VARIABLES
    cards,          \* the card objects of the parsed deck documents: ref -> record
    CURRENT_DECK,   \* the canonical deck: three section lists of card refs
    controls,       \* values of the filter bar controls
    filtered,       \* the deck snapshot returned by the last makeFilteredDeck
    incSide,        \* #htIncludeSide checkbox
    incExtra,       \* #htIncludeExtra checkbox
    state,          \* wireHandTester's closure variable: [deck |-> pool, hand |-> hand]
    DRAWN,          \* DRAWN.counts: card key -> number of copies marked drawn
    shown,          \* the deck sections currently rendered in #deck-root
    ev,             \* the handler or function that ran last, and its count argument
    collapse,       \* per section: class is-collapsed, aria-expanded, grid display:none
    root,           \* what #deck-root holds: the neutral view, a deck or the error text
    active,         \* the deck buttons that carry is-active
    loads,          \* the crossfadeLoad calls in flight, oldest first
    latest,         \* the deck button of the most recent load request (0: none yet)
    loader,         \* the #loading overlay is visible
    switching,      \* #deck-root carries is-switching
    rafs,           \* requestAnimationFrame callbacks of crossfadeLoad not yet run
    winLoaded,      \* the window "load" event has fired
    dataTheme,      \* per page: the data-theme attribute of the document element
    localTheme,     \* localStorage item "theme"
    trail,          \* per page: the data-theme values since its script ran, oldest first
    gallery,        \* the lightbox's gallery: the card images collected last, in document order
    current,        \* the lightbox's index into gallery, counted from 0 (-1: none)
    lightbox,       \* style.display of #lightbox ("": not set, the style sheet hides it)
    imgEl,          \* the card whose full-size image #lightbox-img shows (0: none yet)
    wired           \* applyFilters listeners on each filter bar control, counted up to MaxWired

\* state of the page around the deck view; the handlers of the hand tester
\* and of the filter bar do not touch it
pageVars == <<root, active, loads, latest, loader, switching, rafs, winLoaded,
              dataTheme, localTheme, trail, gallery, current, lightbox, imgEl>>

vars == <<cards, CURRENT_DECK, controls, filtered, incSide, incExtra, state, DRAWN, shown, ev,
          collapse, wired, pageVars>>

(* ------------------------------ bounds --------------------------------- *)

\* longest main section of the decks the filter is tried on
MaxLen == 2
\* cap on one ledger counter (the counters grow without bound under the toggles)
MaxDrawn == 3

(* ------------------------------ strings -------------------------------- *)

S_empty == << >>
S_monster == <<"m","o","n","s","t","e","r">>
S_spell == <<"s","p","e","l","l">>
S_trap == <<"t","r","a","p">>
S_slash == <<"/">>
S_sep == <<" ","/"," ">>
S_space == <<" ">>
S_Monster == <<"M","o","n","s","t","e","r">>
S_Zombie == <<"Z","o","m","b","i","e">>
S_Spell == <<"S","p","e","l","l">>
S_Trap == <<"T","r","a","p">>
S_Token == <<"T","o","k","e","n">>
S_MONSTER == <<"M","O","N","S","T","E","R">>
S_TrapMonsterStr == <<"T","R","A","P"," ","M","O","N","S","T","E","R","/","F","i","e","n","d">>
S_Lord == <<"L","o","r","d">>
S_Zom == <<"Z","o","m">>
S_Wall == <<"W","a","l","l">>
S_Tok == <<"T","o","k">>
S_Link == <<"L","i","n","k">>
S_Pit == <<"P","i","t">>
S_DARK == <<"D","A","R","K">>
S_aZombie == <<"a"," ","z","o","m","b","i","e">>
S_Boss == <<"B","o","s","s">>
S_ControlBoss == <<"C","o","n","t","r","o","l"," ","/"," ","B","o","s","s">>
S_ZOM == <<"Z","O","M">>
S_boss == <<"b","o","s","s">>

Upper == <<"A","B","C","D","E","F","G","H","I","J","K","L","M",
           "N","O","P","Q","R","S","T","U","V","W","X","Y","Z">>
Lower == <<"a","b","c","d","e","f","g","h","i","j","k","l","m",
           "n","o","p","q","r","s","t","u","v","w","x","y","z">>

Chars == {Upper[k] : k \in DOMAIN Upper} \cup {Lower[k] : k \in DOMAIN Lower} \cup {" ", "/"}

\* the lower-case form of every character
LowerOf ==
    [c \in Chars |->
        IF \E k \in DOMAIN Upper : Upper[k] = c
        THEN Lower[CHOOSE k \in DOMAIN Upper : Upper[k] = c]
        ELSE c]

\* String.prototype.toLowerCase
toLowerCase(s) == [i \in DOMAIN s |-> LowerOf[s[i]]]

\* String.prototype.includes: needle occurs in hay at some offset
includes(hay, needle) ==
    \E i \in 0..(Len(hay) - Len(needle)) :
        \A k \in 1..Len(needle) : hay[i + k] = needle[k]

\* index of the first occurrence of sep in s, 0 when there is none
IndexOf(s, sep) ==
    IF \E i \in 1..(Len(s) - Len(sep) + 1) : SubSeq(s, i, i + Len(sep) - 1) = sep
    THEN CHOOSE i \in 1..(Len(s) - Len(sep) + 1) :
            /\ SubSeq(s, i, i + Len(sep) - 1) = sep
            /\ \A j \in 1..(i - 1) : SubSeq(s, j, j + Len(sep) - 1) # sep
    ELSE 0

\* String.prototype.split with a non-empty literal separator
RECURSIVE split(_, _)
split(s, sep) ==
    LET i == IndexOf(s, sep)
    IN  IF i = 0 THEN <<s>>
        ELSE <<SubSeq(s, 1, i - 1)>> \o split(SubSeq(s, i + Len(sep), Len(s)), sep)

\* String.prototype.trim
RECURSIVE trim(_)
trim(s) ==
    IF s = << >> THEN s
    ELSE IF Head(s) = " " THEN trim(Tail(s))
    ELSE IF s[Len(s)] = " " THEN trim(SubSeq(s, 1, Len(s) - 1))
    ELSE s

\* Array.prototype.join
RECURSIVE join(_, _)
join(arr, sep) ==
    IF arr = << >> THEN << >>
    ELSE IF Len(arr) = 1 THEN arr[1]
    ELSE arr[1] \o sep \o join(Tail(arr), sep)

\* arr.map(s => s.trim()).filter(Boolean)
RECURSIVE trimAndDropEmpty(_)
trimAndDropEmpty(arr) ==
    IF arr = << >> THEN << >>
    ELSE LET t == trim(Head(arr))
         IN  (IF t = << >> THEN << >> ELSE <<t>>) \o trimAndDropEmpty(Tail(arr))

\* norm: String(s || "").toLowerCase()
norm(s) == toLowerCase(s)

\* asArray (vampire.js): split(/\s*\/\s*/) consumes the blanks around each
\* slash and trim() the blanks at both ends of every piece; together that is
\* a split at each "/" followed by trim
asArray(v) ==
    IF v.isArray THEN v.items
    ELSE trimAndDropEmpty(split(v.str, S_slash))

\* asArray (main.js): split(" / ")
asArray_main(v) ==
    IF v.isArray THEN v.items
    ELSE trimAndDropEmpty(split(v.str, S_sep))

joinSlash(arr) == join(arr, S_sep)

typesArrToString(v) == joinSlash(asArray(v))

typesArrToString_main(v) == joinSlash(asArray_main(v))

mapLower(arr) == [i \in DOMAIN arr |-> toLowerCase(arr[i])]

\* getFunctionTags: asArray(card.function ?? card.functions ?? []).map(toLowerCase)
getFunctionTags(card) == mapLower(asArray(card.function))

getFunctionTags_main(card) == mapLower(asArray_main(card.function))

(* ------------------------------- cards --------------------------------- *)

Arr(items) == [isArray |-> TRUE, items |-> items, str |-> << >>]
Str(s) == [isArray |-> FALSE, items |-> << >>, str |-> s]

Card(id, name, qty, type, level, rank, link, attribute, subtype, desc, function) ==
    [id |-> id, name |-> name, qty |-> qty, type |-> type, level |-> level,
     rank |-> rank, link |-> link, attribute |-> attribute, subtype |-> subtype,
     desc |-> desc, function |-> function]

\* The card objects of the deck documents.  1..6 vary the type shape, the
\* kinds, level / rank / link and the searched fields; 7 carries the id of
\* card 1 and 8 the name of card 5 (which has no id).
CardData ==
    <<  Card(<<1>>, S_Lord, <<2>>, Arr(<<S_Monster, S_Zombie>>), <<4>>, << >>, << >>,
             S_DARK, << >>, << >>, Arr(<<S_Boss>>)),
        Card(<<2>>, S_Zom, <<1>>, Arr(<<S_Spell>>), << >>, << >>, << >>,
             << >>, << >>, << >>, Str(S_ControlBoss)),
        Card(<<3>>, S_Wall, <<1>>, Str(S_TrapMonsterStr), <<6>>, <<9>>, << >>,
             S_DARK, << >>, << >>, Str(<< >>)),
        Card(<<4>>, S_Tok, <<3>>, Arr(<<S_Token>>), << >>, <<7>>, << >>,
             << >>, << >>, S_aZombie, Str(<< >>)),
        Card(<< >>, S_Link, << >>, Arr(<<S_MONSTER>>), << >>, << >>, <<5>>,
             << >>, S_Zombie, << >>, Arr(<<S_Boss>>)),
        Card(<<6>>, S_Pit, <<1>>, Arr(<<S_Trap>>), << >>, << >>, << >>,
             << >>, << >>, << >>, Str(<< >>)),
        Card(<<1>>, S_Lord, <<1>>, Arr(<<S_Monster, S_Zombie>>), <<4>>, << >>, << >>,
             S_DARK, << >>, << >>, Arr(<<S_Boss>>)),
        Card(<< >>, S_Link, <<1>>, Arr(<<S_MONSTER>>), << >>, << >>, <<5>>,
             << >>, S_Zombie, << >>, Arr(<<S_Boss>>))
    >>

Refs == DOMAIN CardData

SectionNames == {"main", "extra", "side"}

\* a list object: its identity (addr) and its elements
List(addr, items) == [addr |-> addr, items |-> items]

Deck(main, extra, side) ==
    [sections |-> [main |-> List(1, main), extra |-> List(2, extra), side |-> List(3, side)]]

\* Number(c.qty) || 1
qtyOf(c) == IF c.qty = << >> \/ c.qty[1] = 0 THEN 1 ELSE c.qty[1]

\* sumQty: list.reduce((n, c) => n + (Number(c.qty) || 1), 0) over card records
RECURSIVE sumQty(_)
sumQty(list) ==
    IF list = << >> THEN 0 ELSE qtyOf(Head(list)) + sumQty(Tail(list))

\* the card records a list of refs points to
deref(items) == [i \in DOMAIN items |-> cards[items[i]]]

(* ------------------------- filtering logic ----------------------------- *)

\* Number(value) || null
numOrNull(v) == IF v = << >> \/ v[1] = 0 THEN << >> ELSE v

readFilters(c) ==
    [text     |-> norm(c.filterText),
     kinds    |-> [Monster |-> c.kindMonster, Spell |-> c.kindSpell, Trap |-> c.kindTrap],
     levelMin |-> numOrNull(c.levelMin),
     levelMax |-> numOrNull(c.levelMax),
     fnTag    |-> norm(c.functionFilter)]

\* lvlOf reading rank before level
lvlOf_rankFirst(card) ==
    IF card.rank # << >> THEN card.rank
    ELSE IF card.level # << >> THEN card.level
    ELSE card.link

\* card.level ?? card.rank ?? card.link ?? null
lvlOf(card) ==
    IF card.level # << >> THEN card.level
    ELSE IF card.rank # << >> THEN card.rank
    ELSE card.link

\* the text haystack of vampire.js
hayOf(card) ==
    join(<<norm(card.name), norm(typesArrToString(card.type)),
           norm(card.attribute), norm(card.desc)>>, S_space)

\* the text haystack of main.js
hayOf_main(card) ==
    join(<<norm(card.name), norm(typesArrToString_main(card.type)),
           norm(card.attribute), norm(card.subtype), norm(card.desc)>>, S_space)

\* cardMatches without the "if (f.fnTag)" guard around the tag check
cardMatchesWith_noTagGuard(typeArr, tags, hay, card, f) ==
    LET typeTokens == mapLower(typeArr)
        isMonster  == \E i \in DOMAIN typeTokens : includes(typeTokens[i], S_monster)
        isSpell    == \E i \in DOMAIN typeTokens : includes(typeTokens[i], S_spell)
        isTrap     == \E i \in DOMAIN typeTokens : includes(typeTokens[i], S_trap)
        lvl        == lvlOf(card)
    IN  IF ~f.kinds.Monster /\ isMonster THEN FALSE
        ELSE IF ~f.kinds.Spell /\ isSpell THEN FALSE
        ELSE IF ~f.kinds.Trap /\ isTrap THEN FALSE
        ELSE IF lvl # << >> /\ f.levelMin # << >> /\ lvl[1] < f.levelMin[1] THEN FALSE
        ELSE IF lvl # << >> /\ f.levelMax # << >> /\ lvl[1] > f.levelMax[1] THEN FALSE
        ELSE IF ~(\E i \in DOMAIN tags : tags[i] = f.fnTag) THEN FALSE
        ELSE IF f.text # << >> /\ ~includes(hay, f.text) THEN FALSE
        ELSE TRUE

\* cardMatches scanning the type tags without lower-casing them
cardMatchesWith_caseSensitive(typeArr, tags, hay, card, f) ==
    LET typeTokens == typeArr
        isMonster  == \E i \in DOMAIN typeTokens : includes(typeTokens[i], S_monster)
        isSpell    == \E i \in DOMAIN typeTokens : includes(typeTokens[i], S_spell)
        isTrap     == \E i \in DOMAIN typeTokens : includes(typeTokens[i], S_trap)
        lvl        == lvlOf(card)
    IN  IF ~f.kinds.Monster /\ isMonster THEN FALSE
        ELSE IF ~f.kinds.Spell /\ isSpell THEN FALSE
        ELSE IF ~f.kinds.Trap /\ isTrap THEN FALSE
        ELSE IF lvl # << >> /\ f.levelMin # << >> /\ lvl[1] < f.levelMin[1] THEN FALSE
        ELSE IF lvl # << >> /\ f.levelMax # << >> /\ lvl[1] > f.levelMax[1] THEN FALSE
        ELSE IF f.fnTag # << >> /\ ~(\E i \in DOMAIN tags : tags[i] = f.fnTag) THEN FALSE
        ELSE IF f.text # << >> /\ ~includes(hay, f.text) THEN FALSE
        ELSE TRUE

\* cardMatches, with the type tokens, the function tags and the haystack of
\* the file it is taken from ("isMonster && !f.kinds.Monster" is
\* written with the toggle first: the two tests have no side effect)
cardMatchesWith(typeArr, tags, hay, card, f) ==
    LET typeTokens == mapLower(typeArr)
        isMonster  == \E i \in DOMAIN typeTokens : includes(typeTokens[i], S_monster)
        isSpell    == \E i \in DOMAIN typeTokens : includes(typeTokens[i], S_spell)
        isTrap     == \E i \in DOMAIN typeTokens : includes(typeTokens[i], S_trap)
        lvl        == lvlOf(card)
    IN  IF ~f.kinds.Monster /\ isMonster THEN FALSE
        ELSE IF ~f.kinds.Spell /\ isSpell THEN FALSE
        ELSE IF ~f.kinds.Trap /\ isTrap THEN FALSE
        ELSE IF lvl # << >> /\ f.levelMin # << >> /\ lvl[1] < f.levelMin[1] THEN FALSE
        ELSE IF lvl # << >> /\ f.levelMax # << >> /\ lvl[1] > f.levelMax[1] THEN FALSE
        ELSE IF f.fnTag # << >> /\ ~(\E i \in DOMAIN tags : tags[i] = f.fnTag) THEN FALSE
        ELSE IF f.text # << >> /\ ~includes(hay, f.text) THEN FALSE
        ELSE TRUE

cardMatches(card, f) ==
    cardMatchesWith(asArray(card.type), getFunctionTags(card), hayOf(card), card, f)

cardMatches_main(card, f) ==
    cardMatchesWith(asArray_main(card.type), getFunctionTags_main(card), hayOf_main(card), card, f)

\* filterCards collecting the matches with unshift instead of push
RECURSIVE filterCards_unshift(_, _)
filterCards_unshift(items, f) ==
    IF items = << >> THEN << >>
    ELSE filterCards_unshift(Tail(items), f)
         \o (IF cardMatches(cards[Head(items)], f) THEN <<Head(items)>> ELSE << >>)

\* (cards || []).filter(c => cardMatches(c, f)): the elements of a new array
RECURSIVE filterCards(_, _)
filterCards(items, f) ==
    IF items = << >> THEN << >>
    ELSE (IF cardMatches(cards[Head(items)], f) THEN <<Head(items)>> ELSE << >>)
         \o filterCards(Tail(items), f)

RECURSIVE filterCards_main(_, _)
filterCards_main(items, f) ==
    IF items = << >> THEN << >>
    ELSE (IF cardMatches_main(cards[Head(items)], f) THEN <<Head(items)>> ELSE << >>)
         \o filterCards_main(Tail(items), f)

\* a filter that works in place and hands back the k-th input list itself
NewAddr_inPlace(deck, k) == k

\* the address of the k-th array allocated while the lists of deck are live
NewAddr(deck, k) ==
    LET used == {deck.sections[s].addr : s \in SectionNames}
    IN  (CHOOSE m \in used : \A a \in used : a <= m) + k

\* makeFilteredDeck whose side line was copied from the main line
makeFilteredDeck_sideFromMain(deck, f) ==
    [sections |->
        [main  |-> List(NewAddr(deck, 1), filterCards(deck.sections.main.items, f)),
         extra |-> List(NewAddr(deck, 2), filterCards(deck.sections.extra.items, f)),
         side  |-> List(NewAddr(deck, 3), filterCards(deck.sections.main.items, f))]]

\* makeFilteredDeck: { ...deck, sections: { main: filterCards(...), ... } }
makeFilteredDeck(deck, f) ==
    [sections |->
        [main  |-> List(NewAddr(deck, 1), filterCards(deck.sections.main.items, f)),
         extra |-> List(NewAddr(deck, 2), filterCards(deck.sections.extra.items, f)),
         side  |-> List(NewAddr(deck, 3), filterCards(deck.sections.side.items, f))]]

makeFilteredDeck_main(deck, f) ==
    [sections |->
        [main  |-> List(NewAddr(deck, 1), filterCards_main(deck.sections.main.items, f)),
         extra |-> List(NewAddr(deck, 2), filterCards_main(deck.sections.extra.items, f)),
         side  |-> List(NewAddr(deck, 3), filterCards_main(deck.sections.side.items, f))]]

(* ------------------- drawn ledger and projection ----------------------- *)

\* cardKey: `id:${card.id}` when the card has an id, else `name:${card.name}`
cardKey(card) == IF card.id # << >> THEN <<"id", card.id[1]>> ELSE <<"name", card.name>>

Keys == {cardKey(CardData[r]) : r \in Refs}

\* DRAWN.counts read through "get(k) || 0": a key never set counts 0
NoDrawn == [k \in Keys |-> 0]

\* incDrawn(card, n)
incDrawn(counts, card, n) == [counts EXCEPT ![cardKey(card)] = @ + n]

\* a clearDrawn that leaves the counts in the map
clearDrawn_keep == DRAWN

\* clearDrawn
clearDrawn == NoDrawn

Max(a, b) == IF a >= b THEN a ELSE b
Min(a, b) == IF a <= b THEN a ELSE b

\* remainingQtyFor under the ledger counts
remainingQtyFor(counts, card) == Max(0, qtyOf(card) - counts[cardKey(card)])

\* projectCardsForDisplay: copies { ...c, qty: remaining } of the cards with
\* something left; a copy is kept as the ref of the card it copies and its qty
RECURSIVE projectCardsForDisplay(_, _)
projectCardsForDisplay(counts, items) ==
    IF items = << >> THEN << >>
    ELSE LET q == remainingQtyFor(counts, cards[Head(items)])
         IN  (IF q > 0 THEN <<[src |-> Head(items), qty |-> <<q>>]>> ELSE << >>)
             \o projectCardsForDisplay(counts, Tail(items))

\* a section that is not rendered (sectionBlock returned "")
NoBlock == [rendered |-> FALSE, count |-> 0, tiles |-> << >>]

\* sectionBlock: the projected tiles and their count, or nothing
sectionBlock(counts, items) ==
    LET visible == projectCardsForDisplay(counts, items)
    IN  IF visible = << >> THEN NoBlock
        ELSE [rendered |-> TRUE, count |-> sumQty(visible), tiles |-> visible]

\* a projection that writes the remaining quantity into the stored card
\* (c.qty = remainingQtyFor(c)) instead of into a copy
storeAfterProjection_inPlace(counts, deck) ==
    [r \in Refs |->
        IF \E sec \in SectionNames : \E i \in DOMAIN deck.sections[sec].items :
               deck.sections[sec].items[i] = r
        THEN [cards[r] EXCEPT !.qty = <<remainingQtyFor(counts, cards[r])>>]
        ELSE cards[r]]

\* the stored card records after the sections of deck were projected:
\* map(c => ({ ...c, qty })) builds a new object per card and writes to none
storeAfterProjection(counts, deck) == cards

\* the three collapse indicators sectionBlock writes into the markup
sectionIndicators(collapsed) ==
    [cls |-> collapsed, aria |-> IF collapsed THEN "false" ELSE "true", hidden |-> collapsed]

\* a section that is not in the document has no indicators
NoIndicators == [cls |-> FALSE, aria |-> "", hidden |-> FALSE]

\* wireUI over freshly written sections: "start expanded" removes the class
\* and the display style of every section there is (aria-expanded stays)
wireSections(blocks) ==
    [s \in SectionNames |->
        IF blocks[s].rendered
        THEN [sectionIndicators(FALSE) EXCEPT !.cls = FALSE, !.hidden = FALSE]
        ELSE NoIndicators]

\* largest listener count that is told apart: MaxWired stands for
\* "MaxWired or more"
MaxWired == 2

\* wireUI on a filter bar that survived the refresh: addEventListener on each
\* control with a new closure and no wired flag, so each control holds one
\* listener more
rewire(n) == Min(MaxWired, n + 1)

\* one event on a control that holds n listeners: each of them runs
\* applyFilters, refreshSections and wireUI once; the listeners added while
\* the event is dispatched do not run for it
dispatch(n) == Min(MaxWired, n + n)

\* render(deck): the three section blocks of the unfiltered deck
renderSections(counts, deck) ==
    [s \in SectionNames |-> sectionBlock(counts, deck.sections[s].items)]

\* refreshSections: the three section blocks of the filtered deck
\* (activeDeck() || deck || CURRENT_DECK is CURRENT_DECK: WORKING_DECK is
\* only set from #handControls, which render() never creates)
refreshSections(counts, deck, c) ==
    LET fd == makeFilteredDeck(deck, readFilters(c))
    IN  [s \in SectionNames |-> sectionBlock(counts, fd.sections[s].items)]

(* ----------------------------- hand tester ----------------------------- *)

\* expandSection: every card Math.max(1, Number(card.qty) || 1) times
RECURSIVE expandSection(_)
expandSection(items) ==
    IF items = << >> THEN << >>
    ELSE [i \in 1..Max(1, qtyOf(cards[Head(items)])) |-> Head(items)]
         \o expandSection(Tail(items))

\* a swap that copies a[j] over a[i] and forgets the old a[i]
swap_overwrite(a, i, j) == [a EXCEPT ![i] = a[j]]

\* [a[i], a[j]] = [a[j], a[i]]
swap(a, i, j) == [a EXCEPT ![i] = a[j], ![j] = a[i]]

\* the Fisher-Yates loop from position i down: every value of
\* Math.floor(Math.random() * (i + 1)) is possible
RECURSIVE shuffleFrom(_, _)
shuffleFrom(a, i) ==
    IF i <= 1 THEN {a}
    ELSE UNION {shuffleFrom(swap(a, i, j), i - 1) : j \in 1..i}

\* shuffle(arr): the arrays it can return
shuffle(arr) == shuffleFrom(arr, Len(arr))

\* makeDrawState(deck, { includeSide, includeExtra }): the states it can return
makeDrawState(deck, includeSide, includeExtra) ==
    LET main  == expandSection(deck.sections.main.items)
        side  == IF includeSide THEN expandSection(deck.sections.side.items) ELSE << >>
        extra == IF includeExtra THEN expandSection(deck.sections.extra.items) ELSE << >>
        pool  == main \o side \o extra
    IN  {[deck |-> p, hand |-> << >>] : p \in shuffle(pool)}

\* drawN(state, n): pop from the pool and push on the hand, at most n times
RECURSIVE drawN(_, _)
drawN(st, n) ==
    IF n <= 0 \/ st.deck = << >> THEN st
    ELSE drawN([deck |-> SubSeq(st.deck, 1, Len(st.deck) - 1),
                hand |-> Append(st.hand, st.deck[Len(st.deck)])], n - 1)

\* the loop of drawAndSync with "i <= n": one iteration too many
RECURSIVE drawLoop_offByOne(_, _, _)
drawLoop_offByOne(st, counts, n) ==
    IF n < 0 \/ st.deck = << >> THEN [state |-> st, counts |-> counts]
    ELSE LET c == st.deck[Len(st.deck)]
         IN  drawLoop_offByOne([deck |-> SubSeq(st.deck, 1, Len(st.deck) - 1),
                                hand |-> Append(st.hand, c)],
                               incDrawn(counts, cards[c], 1), n - 1)

\* the loop of drawAndSync(n): as drawN, marking every drawn copy in the ledger
RECURSIVE drawLoop(_, _, _)
drawLoop(st, counts, n) ==
    IF n <= 0 \/ st.deck = << >> THEN [state |-> st, counts |-> counts]
    ELSE LET c == st.deck[Len(st.deck)]
         IN  drawLoop([deck |-> SubSeq(st.deck, 1, Len(st.deck) - 1),
                       hand |-> Append(st.hand, c)],
                      incDrawn(counts, cards[c], 1), n - 1)

(* ---------------------- states before any event ------------------------ *)

NoControls ==
    [filterText |-> << >>, kindMonster |-> TRUE, kindSpell |-> TRUE, kindTrap |-> TRUE,
     levelMin |-> << >>, levelMax |-> << >>, functionFilter |-> << >>]

NoSections == [s \in SectionNames |-> NoBlock]

NoFiltered ==
    [by |-> "none", f |-> readFilters(NoControls),
     sections |-> [s \in SectionNames |-> List(0, << >>)]]

NoState == [deck |-> << >>, hand |-> << >>]

Ev(op, n) == [op |-> op, n |-> n]

\* #deck-root holding `<p class="muted"></p>`
NeutralRoot == [view |-> "neutral", of |-> 0]

\* #deck-root holding the deck that button b asked for
DeckRoot(b) == [view |-> "deck", of |-> b]

\* #deck-root holding "Couldn't load the deck (...)"
ErrorRoot == [view |-> "error", of |-> 0]

\* the pages of the site that run the theme script (main.js, Card_Hub/main.js);
\* they share localStorage
Pages == {1, 2}

\* no data-theme attribute / no localStorage item: getAttribute and getItem give null
NoTheme == "absent"

\* the page with no deck chosen, no load in flight and the theme script not run
PageAtRest ==
    /\ root = NeutralRoot
    /\ active = {}
    /\ loads = << >>
    /\ latest = 0
    /\ loader = FALSE
    /\ switching = FALSE
    /\ rafs = 0
    /\ winLoaded = TRUE
    /\ dataTheme = [p \in Pages |-> NoTheme]
    /\ localTheme = NoTheme
    /\ trail = [p \in Pages |-> << >>]
    /\ gallery = << >>
    /\ current = -1
    /\ lightbox = ""
    /\ imgEl = 0

\* the page after the first deck button was clicked and its deck was
\* loaded and rendered
PageShowing ==
    /\ root = DeckRoot(1)
    /\ active = {1}
    /\ loads = << >>
    /\ latest = 1
    /\ loader = FALSE
    /\ switching = FALSE
    /\ rafs = 0
    /\ winLoaded = TRUE
    /\ dataTheme = [p \in Pages |-> NoTheme]
    /\ localTheme = NoTheme
    /\ trail = [p \in Pages |-> << >>]
    /\ gallery = << >>
    /\ current = -1
    /\ lightbox = ""
    /\ imgEl = 0

(* --------------- the filter engine as a pure function ------------------ *)

\* sequences without repetition of at most n elements of S
InjSeqs(S, n) ==
    {q \in UNION {[1..k -> S] : k \in 0..n} : \A i, j \in DOMAIN q : i # j => q[i] # q[j]}

\* deck documents the filter is tried on: every entry is a card object of its own
FilterDecks ==
    {Deck(m, e, sd) : m \in InjSeqs(1..6, MaxLen), e \in {<< >>, <<3>>}, sd \in {<< >>, <<7, 2>>}}

FilterControls ==
    [filterText : {<< >>, S_ZOM}, kindMonster : BOOLEAN, kindSpell : BOOLEAN,
     kindTrap : BOOLEAN, levelMin : {<< >>, <<0>>, <<5>>},
     levelMax : {<< >>, <<4>>, <<7>>}, functionFilter : {<< >>, S_boss}]

RefsOf(deck) == UNION {{deck.sections[s].items[i] : i \in DOMAIN deck.sections[s].items} : s \in SectionNames}

FilterInit ==
    /\ cards = CardData
    /\ CURRENT_DECK \in FilterDecks
    /\ \A s, t \in SectionNames : s # t =>
          \A i \in DOMAIN CURRENT_DECK.sections[s].items :
          \A j \in DOMAIN CURRENT_DECK.sections[t].items :
             CURRENT_DECK.sections[s].items[i] # CURRENT_DECK.sections[t].items[j]
    /\ controls \in FilterControls
    /\ filtered = NoFiltered
    /\ incSide = FALSE
    /\ incExtra = FALSE
    /\ state = NoState
    /\ DRAWN = NoDrawn
    /\ shown = NoSections
    /\ ev = Ev("init", 0)
    /\ collapse = wireSections(shown)
    /\ wired = 0
    /\ PageAtRest

\* makeFilteredDeck(CURRENT_DECK, readFilters(root)) of vampire.js
MakeFilteredDeck ==
    /\ filtered.by # "vampire.js"
    /\ LET f == readFilters(controls)
       IN  filtered' = [by |-> "vampire.js", f |-> f,
                        sections |-> makeFilteredDeck(CURRENT_DECK, f).sections]
    /\ ev' = Ev("makeFilteredDeck", 0)
    /\ UNCHANGED <<cards, CURRENT_DECK, controls, incSide, incExtra, state, DRAWN, shown>>
    /\ UNCHANGED <<collapse, wired, pageVars>>

\* makeFilteredDeck(CURRENT_DECK, readFilters(root)) of main.js
MakeFilteredDeck_main ==
    /\ filtered.by # "main.js"
    /\ LET f == readFilters(controls)
       IN  filtered' = [by |-> "main.js", f |-> f,
                        sections |-> makeFilteredDeck_main(CURRENT_DECK, f).sections]
    /\ ev' = Ev("makeFilteredDeck", 0)
    /\ UNCHANGED <<cards, CURRENT_DECK, controls, incSide, incExtra, state, DRAWN, shown>>
    /\ UNCHANGED <<collapse, wired, pageVars>>

FilterNext == MakeFilteredDeck \/ MakeFilteredDeck_main

FilterSpec == FilterInit /\ [][FilterNext]_vars

(* ------------------- properties of the filter engine ------------------- *)

\* the type tags, function tags and searched text a card has for the file
\* the snapshot was computed by
TagsOfType(card, by) == IF by = "main.js" THEN asArray_main(card.type) ELSE asArray(card.type)

FnTagsOf(card, by) ==
    IF by = "main.js" THEN asArray_main(card.function) ELSE asArray(card.function)

SearchedText(card, by) == IF by = "main.js" THEN hayOf_main(card) ELSE hayOf(card)

\* one of the card's type tags contains the word, whatever the case
HasKind(card, word, by) ==
    \E i \in DOMAIN TagsOfType(card, by) : includes(toLowerCase(TagsOfType(card, by)[i]), word)

KindWord(kind) == CASE kind = "Monster" -> S_monster [] kind = "Spell" -> S_spell [] kind = "Trap" -> S_trap

\* excluded by the kind toggles: the card is of a kind whose toggle is off
KindExcluded(card, f, by) ==
    \E kind \in {"Monster", "Spell", "Trap"} : ~f.kinds[kind] /\ HasKind(card, KindWord(kind), by)

\* excluded by the level bounds: the first of level, rank, link lies outside
LevelExcluded(card, f) ==
    LET v == IF card.level # << >> THEN card.level[1]
             ELSE IF card.rank # << >> THEN card.rank[1]
             ELSE IF card.link # << >> THEN card.link[1] ELSE 0
        has == card.level # << >> \/ card.rank # << >> \/ card.link # << >>
    IN  has /\ (   (f.levelMin # << >> /\ v < f.levelMin[1])
                \/ (f.levelMax # << >> /\ v > f.levelMax[1]))

TagExcluded(card, f, by) ==
    f.fnTag # << >> /\ \A i \in DOMAIN FnTagsOf(card, by) : toLowerCase(FnTagsOf(card, by)[i]) # f.fnTag

TextExcluded(card, f, by) == f.text # << >> /\ ~includes(SearchedText(card, by), f.text)

\* the card passes every active criterion
Passes(card, f, by) ==
    /\ ~KindExcluded(card, f, by)
    /\ ~LevelExcluded(card, f)
    /\ ~TagExcluded(card, f, by)
    /\ ~TextExcluded(card, f, by)

\* out is the subsequence of in at the positions whose card passes
IsSelection(out, in, f, by) ==
    LET keep == {i \in DOMAIN in : Passes(cards[in[i]], f, by)}
    IN  /\ Len(out) = Cardinality(keep)
        /\ \A j \in DOMAIN out :
              \E i \in keep : Cardinality({k \in keep : k < i}) = j - 1 /\ out[j] = in[i]

In(ref, list) == \E i \in DOMAIN list.items : list.items[i] = ref

NoKinds(f) == f.kinds.Monster /\ f.kinds.Spell /\ f.kinds.Trap
NoBounds(f) == f.levelMin = << >> /\ f.levelMax = << >>
NoTag(f) == f.fnTag = << >>
NoText(f) == f.text = << >>

TotalQty(sections) ==
    sumQty(deref(sections.main.items)) + sumQty(deref(sections.extra.items))
        + sumQty(deref(sections.side.items))

C2_FilterDoesNotMutate ==
    [][filtered' # filtered =>
          /\ CURRENT_DECK' = CURRENT_DECK
          /\ cards' = cards
          /\ \A s, t \in SectionNames :
                filtered'.sections[s].addr # CURRENT_DECK'.sections[t].addr]_vars

\* a filter run that dropped cards, with the deck still holding them
C2_Witness ==
    /\ filtered.by = "vampire.js"
    /\ Len(CURRENT_DECK.sections.main.items) = 2
    /\ filtered.sections.main.items = << >>
    /\ cards = CardData

\* C3: with the three toggles on, no bounds, no text and no tag the filter
\* returns every section with the same cards in the same order.
C3_NeutralFilterIsIdentity ==
    (filtered.by # "none" /\ NoKinds(filtered.f) /\ NoBounds(filtered.f)
        /\ NoTag(filtered.f) /\ NoText(filtered.f)) =>
        \A s \in SectionNames :
            filtered.sections[s].items = CURRENT_DECK.sections[s].items

C3_Witness ==
    /\ filtered.by = "vampire.js"
    /\ NoKinds(filtered.f) /\ NoBounds(filtered.f) /\ NoTag(filtered.f) /\ NoText(filtered.f)
    /\ controls.levelMin = <<0>>
    /\ Len(filtered.sections.main.items) >= 2
    /\ Len(filtered.sections.side.items) = 2

\* C4: the quantities of the filtered sections sum to at most those of the deck.
C4_FilteredQtyAtMostDeckQty ==
    filtered.by # "none" => TotalQty(filtered.sections) <= TotalQty(CURRENT_DECK.sections)

C4_Witness ==
    /\ filtered.by = "vampire.js"
    /\ TotalQty(filtered.sections) < TotalQty(CURRENT_DECK.sections)
    /\ TotalQty(filtered.sections) >= 3

\* C5: a card of a kind (monster, spell, trap, matched in any case inside a
\* type tag) whose toggle is off is absent from the result; when no other
\* criterion is active these are the only absent cards, so a card of no
\* recognised kind is kept under every combination of the toggles.
C5_KindCheck ==
    filtered.by # "none" =>
        \A s \in SectionNames : \A i \in DOMAIN CURRENT_DECK.sections[s].items :
            LET ref == CURRENT_DECK.sections[s].items[i]
            IN  /\ KindExcluded(cards[ref], filtered.f, filtered.by) => ~In(ref, filtered.sections[s])
                /\ (NoBounds(filtered.f) /\ NoTag(filtered.f) /\ NoText(filtered.f)
                      /\ ~In(ref, filtered.sections[s]))
                        => KindExcluded(cards[ref], filtered.f, filtered.by)

\* all toggles off: the token card stays, the card typed "TRAP MONSTER/Fiend" goes
C5_Witness ==
    /\ filtered.by = "vampire.js"
    /\ ~filtered.f.kinds.Monster /\ ~filtered.f.kinds.Spell /\ ~filtered.f.kinds.Trap
    /\ NoBounds(filtered.f) /\ NoTag(filtered.f) /\ NoText(filtered.f)
    /\ In(4, CURRENT_DECK.sections.main) /\ In(4, filtered.sections.main)
    /\ In(3, CURRENT_DECK.sections.extra) /\ ~In(3, filtered.sections.extra)

\* C6: a card whose first non-null of level, rank, link lies below levelMin
\* or above levelMax is absent; when no other criterion is active these are
\* the only absent cards (bounds inclusive, cards without the fields kept).
C6_LevelCheck ==
    filtered.by # "none" =>
        \A s \in SectionNames : \A i \in DOMAIN CURRENT_DECK.sections[s].items :
            LET ref == CURRENT_DECK.sections[s].items[i]
            IN  /\ LevelExcluded(cards[ref], filtered.f) => ~In(ref, filtered.sections[s])
                /\ (NoKinds(filtered.f) /\ NoTag(filtered.f) /\ NoText(filtered.f)
                      /\ ~In(ref, filtered.sections[s]))
                        => LevelExcluded(cards[ref], filtered.f)

\* min 5 / max 7: level 4 goes, level 6 (rank 9) stays, rank 7 stays
C6_Witness ==
    /\ filtered.by = "vampire.js"
    /\ filtered.f.levelMin = <<5>> /\ filtered.f.levelMax = <<7>>
    /\ NoKinds(filtered.f) /\ NoTag(filtered.f) /\ NoText(filtered.f)
    /\ CURRENT_DECK.sections.main.items = <<1, 4>>
    /\ filtered.sections.main.items = <<4>>
    /\ In(3, CURRENT_DECK.sections.extra) /\ In(3, filtered.sections.extra)

\* the searched text the claim describes: name, joined type tags, attribute, description
FourFieldText(card, by) ==
    join(<<norm(card.name),
           norm(IF by = "main.js" THEN typesArrToString_main(card.type)
                ELSE typesArrToString(card.type)),
           norm(card.attribute), norm(card.desc)>>, S_space)

\* C7: with a non-empty text and no other criterion active, a card is in the
\* result exactly when the lower-cased text of its name, joined type tags,
\* attribute and description contains the filter text.
C7_TextCheckFourFields ==
    (filtered.by # "none" /\ ~NoText(filtered.f) /\ NoKinds(filtered.f)
        /\ NoBounds(filtered.f) /\ NoTag(filtered.f)) =>
        \A s \in SectionNames : \A i \in DOMAIN CURRENT_DECK.sections[s].items :
            LET ref == CURRENT_DECK.sections[s].items[i]
            IN  In(ref, filtered.sections[s])
                    <=> includes(FourFieldText(cards[ref], filtered.by), filtered.f.text)

\* the same statement for the snapshots computed by vampire.js only
C7_TextCheckVampire == filtered.by = "vampire.js" => C7_TextCheckFourFields

(* --------------------- the hand tester of one deck --------------------- *)

\* the deck documents behind the deck buttons
HandDecks == {Deck(<<1, 2>>, << >>, <<7>>), Deck(<<5>>, <<3>>, <<8>>)}

\* no ledger counter is past the cap
WithinCap(counts) == \A k \in Keys : counts[k] <= MaxDrawn

\* the state right after crossfadeLoad rendered the first deck: render() drew
\* the sections and wireHandTester built the draw state; nothing is drawn
Init ==
    /\ cards = CardData
    /\ CURRENT_DECK \in HandDecks
    /\ controls = NoControls
    /\ filtered = NoFiltered
    /\ incSide = FALSE
    /\ incExtra = FALSE
    /\ state \in makeDrawState(CURRENT_DECK, FALSE, FALSE)
    /\ DRAWN = NoDrawn
    /\ shown = renderSections(NoDrawn, CURRENT_DECK)
    /\ ev = Ev("render", 0)
    /\ collapse = wireSections(shown)
    /\ wired = 1
    /\ PageShowing

\* "change" on #htIncludeSide: rebuild()
ToggleSide ==
    /\ incSide' = ~incSide
    /\ state' \in makeDrawState(CURRENT_DECK, incSide', incExtra)
    /\ ev' = Ev("toggle", 0)
    /\ UNCHANGED <<cards, CURRENT_DECK, controls, filtered, incExtra, DRAWN, shown>>
    /\ UNCHANGED <<collapse, wired, pageVars>>

\* "change" on #htIncludeExtra: rebuild()
ToggleExtra ==
    /\ incExtra' = ~incExtra
    /\ state' \in makeDrawState(CURRENT_DECK, incSide, incExtra')
    /\ ev' = Ev("toggle", 0)
    /\ UNCHANGED <<cards, CURRENT_DECK, controls, filtered, incSide, DRAWN, shown>>
    /\ UNCHANGED <<collapse, wired, pageVars>>

\* click on Draw 5 / Draw 6: clearDrawn(); rebuild(); drawAndSync(n)
Draw(n) ==
    /\ \E st \in makeDrawState(CURRENT_DECK, incSide, incExtra) :
          LET r == drawLoop(st, clearDrawn, n)
          IN  /\ WithinCap(r.counts)
              /\ state' = r.state
              /\ DRAWN' = r.counts
              /\ shown' = refreshSections(r.counts, CURRENT_DECK, controls)
    /\ ev' = Ev("draw", n)
    /\ cards' = storeAfterProjection(DRAWN', CURRENT_DECK)
    /\ collapse' = wireSections(shown')
    /\ wired' = rewire(wired)
    /\ UNCHANGED <<CURRENT_DECK, controls, filtered, incSide, incExtra>>
    /\ UNCHANGED pageVars

Draw5 == Draw(5)

Draw6 == Draw(6)

\* click on +1: drawAndSync(1)
Plus1 ==
    /\ LET r == drawLoop(state, DRAWN, 1)
       IN  /\ WithinCap(r.counts)
           /\ state' = r.state
           /\ DRAWN' = r.counts
           /\ shown' = refreshSections(r.counts, CURRENT_DECK, controls)
    /\ ev' = Ev("plus1", 1)
    /\ cards' = storeAfterProjection(DRAWN', CURRENT_DECK)
    /\ collapse' = wireSections(shown')
    /\ wired' = rewire(wired)
    /\ UNCHANGED <<CURRENT_DECK, controls, filtered, incSide, incExtra>>
    /\ UNCHANGED pageVars

\* click on Reshuffle: clearDrawn(); rebuild(); refreshSections()
Reshuffle ==
    /\ DRAWN' = clearDrawn
    /\ shown' = refreshSections(clearDrawn, CURRENT_DECK, controls)
    /\ ev' = Ev("reshuffle", 0)
    /\ state' \in makeDrawState(CURRENT_DECK, incSide, incExtra)
    /\ cards' = storeAfterProjection(DRAWN', CURRENT_DECK)
    /\ collapse' = wireSections(shown')
    /\ wired' = rewire(wired)
    /\ UNCHANGED <<CURRENT_DECK, controls, filtered, incSide, incExtra>>
    /\ UNCHANGED pageVars

\* a Clear that puts the cards of the hand back on the pool
Clear_putsHandBack ==
    /\ DRAWN' = clearDrawn
    /\ state' = [deck |-> state.deck \o state.hand, hand |-> << >>]
    /\ shown' = refreshSections(clearDrawn, CURRENT_DECK, controls)
    /\ ev' = Ev("clear", 0)
    /\ cards' = storeAfterProjection(DRAWN', CURRENT_DECK)
    /\ collapse' = wireSections(shown')
    /\ wired' = rewire(wired)
    /\ UNCHANGED <<CURRENT_DECK, controls, filtered, incSide, incExtra>>
    /\ UNCHANGED pageVars

\* click on Clear: clearDrawn(); state.hand = []; refreshSections()
Clear ==
    /\ DRAWN' = clearDrawn
    /\ state' = [state EXCEPT !.hand = << >>]
    /\ shown' = refreshSections(clearDrawn, CURRENT_DECK, controls)
    /\ ev' = Ev("clear", 0)
    /\ cards' = storeAfterProjection(DRAWN', CURRENT_DECK)
    /\ collapse' = wireSections(shown')
    /\ wired' = rewire(wired)
    /\ UNCHANGED <<CURRENT_DECK, controls, filtered, incSide, incExtra>>
    /\ UNCHANGED pageVars

\* the ledger after one copy of card is unmarked: if (cur > 0) set(k, cur - 1)
unmark(counts, card) ==
    IF counts[cardKey(card)] > 0 THEN [counts EXCEPT ![cardKey(card)] = @ - 1] ELSE counts

\* a panel listener that takes the tile out of the hand and does not push
\* the card on the pool
returnToPool_dropsCard ==
    /\ \E idx \in DOMAIN state.hand :
          LET card == state.hand[idx]
              counts == unmark(DRAWN, cards[card])
          IN  /\ state' = [deck |-> state.deck,
                           hand |-> SubSeq(state.hand, 1, idx - 1)
                                    \o SubSeq(state.hand, idx + 1, Len(state.hand))]
              /\ DRAWN' = counts
              /\ shown' = refreshSections(counts, CURRENT_DECK, controls)
    /\ ev' = Ev("return", 0)
    /\ cards' = storeAfterProjection(DRAWN', CURRENT_DECK)
    /\ collapse' = wireSections(shown')
    /\ wired' = rewire(wired)
    /\ UNCHANGED <<CURRENT_DECK, controls, filtered, incSide, incExtra>>

\* the click listener of the hand tester panel, for a click inside the idx-th
\* tile of the hand: splice it out, push it on the pool, unmark one copy,
\* refreshSections()
returnToPool ==
    /\ \E idx \in DOMAIN state.hand :
          LET card == state.hand[idx]
              counts == unmark(DRAWN, cards[card])
          IN  /\ state' = [deck |-> Append(state.deck, card),
                           hand |-> SubSeq(state.hand, 1, idx - 1)
                                    \o SubSeq(state.hand, idx + 1, Len(state.hand))]
              /\ DRAWN' = counts
              /\ shown' = refreshSections(counts, CURRENT_DECK, controls)
    /\ ev' = Ev("return", 0)
    /\ cards' = storeAfterProjection(DRAWN', CURRENT_DECK)
    /\ collapse' = wireSections(shown')
    /\ wired' = rewire(wired)
    /\ UNCHANGED <<CURRENT_DECK, controls, filtered, incSide, incExtra>>

\* click on the idx-th tile of the hand, beside its image: the panel's
\* listener is the only one that acts
ReturnToPool ==
    /\ returnToPool
    /\ UNCHANGED pageVars

\* click on the "No cards drawn." item of the empty hand: splice(0, 1) removes
\* nothing, the handler still calls refreshSections()
TapEmptyHand ==
    /\ state.hand = << >>
    /\ shown' = refreshSections(DRAWN, CURRENT_DECK, controls)
    /\ ev' = Ev("tapEmpty", 0)
    /\ cards' = storeAfterProjection(DRAWN, CURRENT_DECK)
    /\ collapse' = wireSections(shown')
    /\ wired' = rewire(wired)
    /\ UNCHANGED <<CURRENT_DECK, controls, filtered, incSide, incExtra, state, DRAWN>>
    /\ UNCHANGED pageVars

\* the kind checkboxes the user ticks and unticks
KindBoxes == {"kindMonster"}

\* a refresh whose wireHandTester call has no wired test and builds the draw
\* state anew
ChangeKind_rebuilds ==
    /\ \E k \in KindBoxes : controls' = [controls EXCEPT ![k] = ~@]
    /\ shown' = refreshSections(DRAWN, CURRENT_DECK, controls')
    /\ state' \in makeDrawState(CURRENT_DECK, incSide, incExtra)
    /\ ev' = Ev("filter", wired)
    /\ cards' = storeAfterProjection(DRAWN, CURRENT_DECK)
    /\ collapse' = wireSections(shown')
    /\ wired' = dispatch(wired)
    /\ UNCHANGED <<CURRENT_DECK, filtered, incSide, incExtra, DRAWN>>
    /\ UNCHANGED pageVars

\* "change" on a kind checkbox: applyFilters() -> refreshSections()
ChangeKind ==
    /\ \E k \in KindBoxes : controls' = [controls EXCEPT ![k] = ~@]
    /\ shown' = refreshSections(DRAWN, CURRENT_DECK, controls')
    /\ ev' = Ev("filter", wired)
    /\ cards' = storeAfterProjection(DRAWN, CURRENT_DECK)
    /\ collapse' = wireSections(shown')
    /\ wired' = dispatch(wired)
    /\ UNCHANGED <<CURRENT_DECK, filtered, incSide, incExtra, state, DRAWN>>
    /\ UNCHANGED pageVars

\* click on Clear Filter: every control back to its default, applyFilters()
ClearFilter ==
    /\ controls' = NoControls
    /\ shown' = refreshSections(DRAWN, CURRENT_DECK, NoControls)
    /\ ev' = Ev("clearFilter", wired)
    /\ cards' = storeAfterProjection(DRAWN, CURRENT_DECK)
    /\ collapse' = wireSections(shown')
    /\ wired' = dispatch(wired)
    /\ UNCHANGED <<CURRENT_DECK, filtered, incSide, incExtra, state, DRAWN>>
    /\ UNCHANGED pageVars

Next ==
    \/ ToggleSide
    \/ ToggleExtra
    \/ Draw5
    \/ Draw6
    \/ Plus1
    \/ Reshuffle
    \/ Clear
    \/ ReturnToPool
    \/ TapEmptyHand
    \/ ChangeKind
    \/ ClearFilter

Spec == Init /\ [][Next]_vars

(* ------------- the draw engine as functions of a draw state ------------ *)

\* largest count drawN is called with
MaxN == 6

DrawDecks == {Deck(<<1, 2>>, <<3>>, <<7>>), Deck(<<5, 4>>, <<6>>, <<8>>)}

DrawInit ==
    /\ cards = CardData
    /\ CURRENT_DECK \in DrawDecks
    /\ controls = NoControls
    /\ filtered = NoFiltered
    /\ incSide \in BOOLEAN
    /\ incExtra \in BOOLEAN
    /\ state = NoState
    /\ DRAWN = NoDrawn
    /\ shown = renderSections(NoDrawn, CURRENT_DECK)
    /\ ev = Ev("init", 0)
    /\ collapse = wireSections(shown)
    /\ wired = 1
    /\ PageAtRest

\* state = makeDrawState(deck, { includeSide, includeExtra })
CallMakeDrawState ==
    /\ ev.op = "init"
    /\ state' \in makeDrawState(CURRENT_DECK, incSide, incExtra)
    /\ ev' = Ev("makeDrawState", 0)
    /\ UNCHANGED <<cards, CURRENT_DECK, controls, filtered, incSide, incExtra, DRAWN, shown>>
    /\ UNCHANGED <<collapse, wired, pageVars>>

\* drawN(state, n)
CallDrawN ==
    /\ ev.op # "init"
    /\ \E n \in 1..MaxN :
          /\ state' = drawN(state, n)
          /\ ev' = Ev("drawN", n)
    /\ UNCHANGED <<cards, CURRENT_DECK, controls, filtered, incSide, incExtra, DRAWN, shown>>
    /\ UNCHANGED <<collapse, wired, pageVars>>

\* drawAndSync(n), which the buttons call with 1, 5 and 6
CallDrawAndSync ==
    /\ ev.op # "init"
    /\ \E n \in {1, 5, 6} :
          LET r == drawLoop(state, DRAWN, n)
          IN  /\ state' = r.state
              /\ DRAWN' = r.counts
              /\ shown' = refreshSections(r.counts, CURRENT_DECK, controls)
              /\ ev' = Ev("drawAndSync", n)
    /\ collapse' = wireSections(shown')
    /\ wired' = rewire(wired)
    /\ UNCHANGED <<cards, CURRENT_DECK, controls, filtered, incSide, incExtra>>
    /\ UNCHANGED pageVars

DrawNext == CallMakeDrawState \/ CallDrawN \/ CallDrawAndSync

DrawSpec == DrawInit /\ [][DrawNext]_vars

(* -------------------- properties of the draw engine -------------------- *)

CountIn(seq, x) == Cardinality({i \in DOMAIN seq : seq[i] = x})

Reverse(seq) == [i \in DOMAIN seq |-> seq[Len(seq) + 1 - i]]

\* the entries of the sections a pool is built from
IncludedItems(deck, includeSide, includeExtra) ==
    deck.sections.main.items
        \o (IF includeSide THEN deck.sections.side.items ELSE << >>)
        \o (IF includeExtra THEN deck.sections.extra.items ELSE << >>)

\* pool holds every included card reference as often as its quantity says,
\* and no other reference
IsQtyExpansion(pool, deck, includeSide, includeExtra) ==
    LET inc == IncludedItems(deck, includeSide, includeExtra)
    IN  /\ \A r \in Refs :
              CountIn(pool, r) = IF CountIn(inc, r) > 0 THEN qtyOf(cards[r]) ELSE 0
        /\ Len(pool) = sumQty(deref(inc))

\* C8: makeDrawState returns an empty hand and, whatever the shuffle chose, a
\* pool that is a permutation of the quantity expansion of main (plus side,
\* plus extra when included); the deck and its cards are left as they were.
C8_PoolIsQtyExpansion ==
    [][ev'.op = "makeDrawState" =>
          /\ state'.hand = << >>
          /\ IsQtyExpansion(state'.deck, CURRENT_DECK, incSide, incExtra)
          /\ CURRENT_DECK' = CURRENT_DECK
          /\ cards' = cards]_vars

\* side and extra included, the pool in the reverse of the expansion order
C8_Witness ==
    /\ ev.op = "makeDrawState"
    /\ incSide /\ incExtra
    /\ state.deck = <<3, 7, 2, 1, 1>>
    /\ state.hand = << >>

\* post is pre after min(n, T) pops: the last cards of the pool went to the
\* end of the hand in the order they were popped, the rest of the pool stays
Moves(pre, post, n) ==
    LET T == Len(pre.deck)
        k == Min(n, T)
    IN  /\ Len(post.deck) = T - k
        /\ post.deck = SubSeq(pre.deck, 1, T - k)
        /\ Len(post.hand) = Len(pre.hand) + k
        /\ post.hand = pre.hand \o Reverse(SubSeq(pre.deck, T - k + 1, T))

\* C9: drawing n from a pool of T cards (drawN, drawAndSync) moves min(n, T)
\* cards to the end of the hand and leaves T - min(n, T); a draw from an
\* empty pool changes neither the draw state nor the ledger.
C9_DrawMovesMinNT ==
    [][ev'.op \in {"drawN", "drawAndSync"} =>
          /\ Moves(state, state', ev'.n)
          /\ state.deck = << >> => (state' = state /\ DRAWN' = DRAWN)]_vars

\* drawAndSync(5) on a pool of six
C9_Witness ==
    /\ ev = Ev("drawAndSync", 5)
    /\ Len(state.hand) = 5
    /\ Len(state.deck) = 1

(* -------------------- properties of the hand tester -------------------- *)

\* C10: while the hand holds one copy of a card, the card's projected
\* quantity is its stored quantity minus 1; tapping that copy takes one off
\* the card's ledger count (not below zero), puts the card on the pool and
\* brings the projected quantity back to the stored quantity.
C10_LedgerRoundTrip ==
    [][\A r \in RefsOf(CURRENT_DECK) :
          /\ CountIn(state'.hand, r) = 1 =>
                remainingQtyFor(DRAWN', cards'[r]) = qtyOf(cards'[r]) - 1
          /\ (ev'.op = "return" /\ CountIn(state.hand, r) = 1 /\ CountIn(state'.hand, r) = 0) =>
                /\ DRAWN'[cardKey(cards[r])] = Max(0, DRAWN[cardKey(cards[r])] - 1)
                /\ state'.deck = Append(state.deck, r)
                /\ remainingQtyFor(DRAWN', cards'[r]) = qtyOf(cards'[r])]_vars

\* stored quantity of the card behind ref minus its ledger count
Remaining(ref) == qtyOf(cards[ref]) - DRAWN[cardKey(cards[ref])]

\* the refs of list that have something left, in list order
ShownRefs(list) == SelectSeq(list, LAMBDA r : Remaining(r) > 0)

RECURSIVE SumRemaining(_)
SumRemaining(refs) ==
    IF refs = << >> THEN 0 ELSE Remaining(Head(refs)) + SumRemaining(Tail(refs))

\* the card list of section s under the criteria of the filter bar
FilteredList(s) == makeFilteredDeck(CURRENT_DECK, readFilters(controls)).sections[s].items

\* block shows list under the ledger
IsProjection(block, list) ==
    LET refs == ShownRefs(list)
    IN  /\ block.rendered <=> refs # << >>
        /\ Len(block.tiles) = Len(refs)
        /\ \A i \in DOMAIN refs :
              /\ block.tiles[i].src = refs[i]
              /\ block.tiles[i].qty = <<Remaining(refs[i])>>
        /\ block.count = SumRemaining(refs)

\* C11: every section display is the projection of its filtered card list
\* under the ledger: a card is shown with stored quantity minus ledger count,
\* left out exactly when that is zero or less, the displayed count is the sum
\* of the shown quantities, and a section with no shown card is not rendered.
C11_DisplayIsProjection ==
    root.view = "deck" =>
        \A s \in SectionNames : IsProjection(shown[s], FilteredList(s))

\* C12: no hand-tester operation and no section refresh changes the stored
\* quantity of a card of CURRENT_DECK, nor the deck's lists.
C12_StoredQtyNeverChanges ==
    [][/\ \A r \in Refs : cards'[r].qty = cards[r].qty
       /\ CURRENT_DECK' = CURRENT_DECK]_vars

\* a copy was tapped back while another is still out: Lord is displayed
\* with 1 left and is still stored with 2
C12_Witness ==
    /\ ev.op = "return"
    /\ DRAWN[<<"id", 1>>] = 1
    /\ shown.main.tiles[1] = [src |-> 1, qty |-> <<1>>]
    /\ cards[1].qty = <<2>>

\* C13: right after Reshuffle the hand is empty, every ledger count is zero
\* and the pool has as many cards as the included sections have quantity.
C13_ReshuffleResets ==
    [][ev'.op = "reshuffle" =>
          /\ state'.hand = << >>
          /\ \A k \in Keys : DRAWN'[k] = 0
          /\ Len(state'.deck) = sumQty(deref(IncludedItems(CURRENT_DECK', incSide', incExtra')))
          /\ IsQtyExpansion(state'.deck, CURRENT_DECK', incSide', incExtra')]_vars

\* a reshuffle with the side deck included: Lord, Lord, Zom and the side Lord
C13_Witness ==
    /\ ev.op = "reshuffle"
    /\ incSide /\ ~incExtra
    /\ CURRENT_DECK.sections.side.items = <<7>>
    /\ Len(state.deck) = 4
    /\ state.hand = << >>
    /\ DRAWN = NoDrawn

\* C14: Clear empties the hand and zeroes the ledger and leaves the pool as
\* it was, same cards in the same order: nothing is rebuilt, nothing put back.
C14_ClearKeepsPool ==
    [][ev'.op = "clear" =>
          /\ state'.hand = << >>
          /\ \A k \in Keys : DRAWN'[k] = 0
          /\ state'.deck = state.deck]_vars

\* a Clear after three of the four cards were drawn: one card in the pool
C14_Witness ==
    /\ ev.op = "clear"
    /\ incSide /\ ~incExtra
    /\ CURRENT_DECK.sections.side.items = <<7>>
    /\ Len(state.deck) = 1
    /\ state.hand = << >>

(* ------------------ deck buttons and deck loading ---------------------- *)

\* the deck buttons (.deckbox) of the page
DeckButtons == {1, 2}

\* loads that may be in flight at a time
MaxLoads == 2

\* frame callbacks that may be waiting for the next frame
MaxRafs == 2

\* CURRENT_DECK = null: no deck was loaded yet
NoDeck == Deck(<< >>, << >>, << >>)

\* the deck document behind the data-deck path of button b; the two decks
\* hold a copy of the same card (id 1)
DeckOf(b) == IF b = 1 THEN Deck(<<1>>, << >>, << >>) ELSE Deck(<<7, 2>>, << >>, << >>)

\* how loadDeck can end: the document, a rejected fetch, a status that is
\* not OK, a body that is not JSON
Outcomes == {"ok", "rejected", "notOk", "badJson"}

\* after DOMContentLoaded: showLoader(), the neutral view, the buttons wired
LoadInit ==
    /\ cards = CardData
    /\ CURRENT_DECK = NoDeck
    /\ controls = NoControls
    /\ filtered = NoFiltered
    /\ incSide = FALSE
    /\ incExtra = FALSE
    /\ state = NoState
    /\ DRAWN = NoDrawn
    /\ shown = NoSections
    /\ collapse = wireSections(NoSections)
    /\ wired = 0
    /\ ev = Ev("boot", 0)
    /\ root = NeutralRoot
    /\ active = {}
    /\ loads = << >>
    /\ latest = 0
    /\ loader = TRUE
    /\ switching = FALSE
    /\ rafs = 0
    /\ winLoaded = FALSE
    /\ dataTheme = [p \in Pages |-> NoTheme]
    /\ localTheme = NoTheme
    /\ trail = [p \in Pages |-> << >>]
    /\ gallery = << >>
    /\ current = -1
    /\ lightbox = ""
    /\ imgEl = 0

\* window "load": hideLoader()
WindowLoad ==
    /\ ~winLoaded
    /\ winLoaded' = TRUE
    /\ loader' = FALSE
    /\ ev' = Ev("load", 0)
    /\ UNCHANGED <<cards, CURRENT_DECK, controls, filtered, incSide, incExtra, state, DRAWN,
                   shown, collapse, root, active, loads, latest, switching, rafs,
                   dataTheme, localTheme, trail,
                   gallery, current, lightbox, imgEl, wired>>

\* click on the deck button that is active: the button loses is-active and
\* #deck-root gets the neutral view, which takes the filter bar, the hand
\* tester and the sections out of the document
Deactivate(b) ==
    /\ b \in active
    /\ active' = active \ {b}
    /\ root' = NeutralRoot
    /\ controls' = NoControls
    /\ incSide' = FALSE
    /\ incExtra' = FALSE
    /\ state' = NoState
    /\ shown' = NoSections
    /\ collapse' = wireSections(NoSections)
    /\ wired' = 0
    /\ ev' = Ev("deactivate", b)
    /\ UNCHANGED <<cards, CURRENT_DECK, filtered, DRAWN, loads, latest, loader, switching,
                   rafs, winLoaded, dataTheme, localTheme, trail,
                   gallery, current, lightbox, imgEl>>

\* click on a deck button that is not active: it becomes the only active
\* button and crossfadeLoad starts: showLoader(), is-switching, wait(180)
StartLoad(b) ==
    /\ b \notin active
    /\ Len(loads) < MaxLoads
    /\ active' = {b}
    /\ loads' = Append(loads, [btn |-> b, pc |-> "wait"])
    /\ latest' = b
    /\ loader' = TRUE
    /\ switching' = TRUE
    /\ ev' = Ev("click", b)
    /\ UNCHANGED <<cards, CURRENT_DECK, controls, filtered, incSide, incExtra, state, DRAWN,
                   shown, collapse, root, rafs, winLoaded, dataTheme, localTheme, trail,
                   gallery, current, lightbox, imgEl, wired>>

\* the 180 ms timer of the oldest waiting load fires: loadDeck(path) fetches
FadeDone ==
    /\ \E i \in DOMAIN loads :
          /\ loads[i].pc = "wait"
          /\ \A j \in 1..(i - 1) : loads[j].pc # "wait"
          /\ loads' = [loads EXCEPT ![i].pc = "fetch"]
          /\ ev' = Ev("fade", loads[i].btn)
    /\ UNCHANGED <<cards, CURRENT_DECK, controls, filtered, incSide, incExtra, state, DRAWN,
                   shown, collapse, root, active, latest, loader, switching, rafs, winLoaded,
                   dataTheme, localTheme, trail,
                   gallery, current, lightbox, imgEl, wired>>

\* loads without its i-th element
Without(seq, i) == SubSeq(seq, 1, i - 1) \o SubSeq(seq, i + 1, Len(seq))

\* loadDeck of a load resolves with the document: CURRENT_DECK = deck;
\* render(deck) under the ledger as it is; clearDrawn(); the frame callback
\* is requested; back in the click handler the button gets is-active
LoadResolves ==
    /\ \E i \in DOMAIN loads :
          LET b == loads[i].btn
              deck == DeckOf(b)
          IN  /\ loads[i].pc = "fetch"
              /\ rafs < MaxRafs
              /\ loads' = Without(loads, i)
              /\ CURRENT_DECK' = deck
              /\ cards' = storeAfterProjection(DRAWN, deck)
              /\ shown' = renderSections(DRAWN, deck)
              /\ state' \in makeDrawState(deck, FALSE, FALSE)
              /\ root' = DeckRoot(b)
              /\ active' = active \cup {b}
              /\ ev' = Ev("loaded", b)
    /\ collapse' = wireSections(shown')
    /\ wired' = 1
    /\ controls' = NoControls
    /\ incSide' = FALSE
    /\ incExtra' = FALSE
    /\ DRAWN' = clearDrawn
    /\ rafs' = rafs + 1
    /\ UNCHANGED <<filtered, latest, loader, switching, winLoaded, dataTheme, localTheme, trail,
                   gallery, current, lightbox, imgEl>>

\* loadDeck of a load throws: the catch block writes the error text into
\* #deck-root; the frame callback is requested; crossfadeLoad returns
\* normally, so the click handler gives the button is-active
LoadFails ==
    /\ \E i \in DOMAIN loads : \E outcome \in Outcomes \ {"ok"} :
          /\ loads[i].pc = "fetch"
          /\ rafs < MaxRafs
          /\ loads' = Without(loads, i)
          /\ active' = active \cup {loads[i].btn}
          /\ ev' = Ev("loadFailed", loads[i].btn)
    /\ root' = ErrorRoot
    /\ controls' = NoControls
    /\ incSide' = FALSE
    /\ incExtra' = FALSE
    /\ state' = NoState
    /\ shown' = NoSections
    /\ collapse' = wireSections(NoSections)
    /\ wired' = 0
    /\ rafs' = rafs + 1
    /\ UNCHANGED <<cards, CURRENT_DECK, filtered, DRAWN, latest, loader, switching, winLoaded,
                   dataTheme, localTheme, trail,
                   gallery, current, lightbox, imgEl>>

\* the next frame: the browser runs every waiting frame callback of
\* crossfadeLoad, each one takes is-switching off and calls hideLoader()
Frame ==
    /\ rafs > 0
    /\ rafs' = 0
    /\ switching' = FALSE
    /\ loader' = FALSE
    /\ ev' = Ev("frame", 0)
    /\ UNCHANGED <<cards, CURRENT_DECK, controls, filtered, incSide, incExtra, state, DRAWN,
                   shown, collapse, root, active, loads, latest, winLoaded,
                   dataTheme, localTheme, trail,
                   gallery, current, lightbox, imgEl, wired>>

\* +1 on the hand tester of the deck in #deck-root
PlusOneOnPage == root.view = "deck" /\ Plus1

ClickDeck == \E b \in DeckButtons : Deactivate(b) \/ StartLoad(b)

LoadNext ==
    \/ WindowLoad
    \/ ClickDeck
    \/ FadeDone
    \/ LoadResolves
    \/ LoadFails
    \/ Frame
    \/ PlusOneOnPage

LoadSpec == LoadInit /\ [][LoadNext]_vars

\* every card of section s of CURRENT_DECK is displayed with its stored quantity
ShownInFull(s) ==
    LET items == CURRENT_DECK.sections[s].items
    IN  /\ Len(shown[s].tiles) = Len(items)
        /\ \A i \in DOMAIN items :
              shown[s].tiles[i] = [src |-> items[i], qty |-> <<qtyOf(cards[items[i]])>>]

\* C15: when a load succeeds the sections of the new deck are rendered under
\* an empty ledger, every card at its stored quantity, and afterwards the
\* ledger and the hand are empty.
C15_LoadResetsLedger ==
    [][ev'.op = "loaded" =>
          /\ \A s \in SectionNames : ShownInFull(s)'
          /\ DRAWN' = NoDrawn
          /\ state'.hand = << >>]_vars

\* C16: a response that arrives when the deck requested last is already
\* loaded and displayed is discarded: CURRENT_DECK and the view stay with
\* the deck requested last.
C16_StaleResponseDiscarded ==
    [][(/\ ev'.op = "loaded"
        /\ ev'.n # latest
        /\ root = DeckRoot(latest)
        /\ CURRENT_DECK = DeckOf(latest)) =>
          /\ CURRENT_DECK' = CURRENT_DECK
          /\ root' = root]_vars

\* C17: a load that fails while a deck is displayed applies nothing:
\* CURRENT_DECK, the ledger, the draw state and the displayed deck are as
\* before the load.
C17_FailedLoadKeepsView ==
    [][(ev'.op = "loadFailed" /\ root.view = "deck") =>
          /\ CURRENT_DECK' = CURRENT_DECK
          /\ DRAWN' = DRAWN
          /\ state' = state
          /\ root' = root
          /\ shown' = shown]_vars

\* C18: +1 drawing a copy of one card entry changes the projected quantity
\* of that entry only; every other entry of the deck, also one with the same
\* id or name in another section, is projected as before.
C18_DrawTouchesOneEntry ==
    [][(ev'.op = "plus1" /\ Len(state'.hand) = Len(state.hand) + 1) =>
          LET c == state'.hand[Len(state'.hand)]
          IN  \A r \in RefsOf(CURRENT_DECK) \ {c} :
                 remainingQtyFor(DRAWN', cards[r]) = remainingQtyFor(DRAWN, cards[r])]_vars

(* ------------------------ collapsible sections ------------------------- *)

\* the sections in document order
SectionOrder == <<"main", "extra", "side">>

\* a toggle handler that forgets aria-expanded
toggled_noAria(ind) == [ind EXCEPT !.cls = ~ind.cls, !.hidden = ~ind.cls]

\* the indicators after the click handler of a section's toggle:
\* collapsed = classList.toggle("is-collapsed"), display and aria follow it
toggled(ind) ==
    [cls |-> ~ind.cls, aria |-> IF ~ind.cls THEN "false" ELSE "true", hidden |-> ~ind.cls]

\* click on the .deck-toggle of the k-th section
ToggleSection ==
    /\ \E k \in DOMAIN SectionOrder :
          /\ shown[SectionOrder[k]].rendered
          /\ collapse' = [collapse EXCEPT ![SectionOrder[k]] = toggled(@)]
          /\ ev' = Ev("toggleSection", k)
    /\ UNCHANGED <<cards, CURRENT_DECK, controls, filtered, incSide, incExtra, state, DRAWN, shown, wired>>
    /\ UNCHANGED pageVars

\* click on Collapse All: every .deck-section gets the class, display:none
\* and aria-expanded="false"
CollapseAll ==
    /\ collapse' = [s \in SectionNames |->
                       IF shown[s].rendered THEN sectionIndicators(TRUE) ELSE collapse[s]]
    /\ ev' = Ev("collapseAll", 0)
    /\ UNCHANGED <<cards, CURRENT_DECK, controls, filtered, incSide, incExtra, state, DRAWN, shown, wired>>
    /\ UNCHANGED pageVars

\* click on Expand All
ExpandAll ==
    /\ collapse' = [s \in SectionNames |->
                       IF shown[s].rendered THEN sectionIndicators(FALSE) ELSE collapse[s]]
    /\ ev' = Ev("expandAll", 0)
    /\ UNCHANGED <<cards, CURRENT_DECK, controls, filtered, incSide, incExtra, state, DRAWN, shown, wired>>
    /\ UNCHANGED pageVars

\* the section controls together with the handlers that rewrite the sections
CollapseNext ==
    \/ ToggleSection
    \/ CollapseAll
    \/ ExpandAll
    \/ Plus1
    \/ ReturnToPool
    \/ ChangeKind
    \/ ClearFilter

CollapseSpec == Init /\ [][CollapseNext]_vars

\* the three indicators of section s say the same
IndicatorsAgree(s) ==
    /\ collapse[s].aria \in {"true", "false"}
    /\ collapse[s].cls <=> collapse[s].aria = "false"
    /\ collapse[s].cls <=> collapse[s].hidden

\* C19: for every displayed section the class is-collapsed, aria-expanded
\* and the hidden grid agree in every state; a click on a section's toggle
\* flips that section and no other; Collapse All and Expand All leave every
\* displayed section collapsed and expanded.
C19_CollapseConsistent ==
    [][/\ \A s \in SectionNames : shown[s].rendered => IndicatorsAgree(s)
       /\ \A s \in SectionNames : shown'[s].rendered => IndicatorsAgree(s)'
       /\ ev'.op = "toggleSection" =>
             \A k \in DOMAIN SectionOrder :
                collapse'[SectionOrder[k]].cls =
                   IF k = ev'.n THEN ~collapse[SectionOrder[k]].cls
                   ELSE collapse[SectionOrder[k]].cls
       /\ ev'.op = "collapseAll" =>
             \A s \in SectionNames : shown'[s].rendered => collapse'[s].cls
       /\ ev'.op = "expandAll" =>
             \A s \in SectionNames : shown'[s].rendered => ~collapse'[s].cls]_vars

\* the main section was just collapsed by its toggle, the side section is
\* displayed and still expanded
C19_Witness ==
    /\ ev = Ev("toggleSection", 1)
    /\ shown.main.rendered /\ shown.side.rendered
    /\ collapse.main = [cls |-> TRUE, aria |-> "false", hidden |-> TRUE]
    /\ collapse.side = [cls |-> FALSE, aria |-> "true", hidden |-> FALSE]

(* ---------------------------- theme toggle ---------------------------- *)

Themes == {"light", "system", "dark"}

\* clicks on the theme button of one page between two loads of the page
MaxClicks == 4

\* a toggle that only knows light and dark
nextTheme_twoWay(c) == IF c = "light" THEN "dark" ELSE "light"

\* n = c === 'light' ? 'system' : c === 'system' ? 'dark' : 'light'
nextTheme(c) == IF c = "light" THEN "system" ELSE IF c = "system" THEN "dark" ELSE "light"

\* the pages as served, before their script runs: the markup may or may not
\* set data-theme, localStorage may or may not hold a theme of an earlier visit
ThemeInit ==
    /\ cards = CardData
    /\ CURRENT_DECK = NoDeck
    /\ controls = NoControls
    /\ filtered = NoFiltered
    /\ incSide = FALSE
    /\ incExtra = FALSE
    /\ state = NoState
    /\ DRAWN = NoDrawn
    /\ shown = NoSections
    /\ collapse = wireSections(NoSections)
    /\ wired = 0
    /\ ev = Ev("init", 0)
    /\ root = NeutralRoot
    /\ active = {}
    /\ loads = << >>
    /\ latest = 0
    /\ loader = FALSE
    /\ switching = FALSE
    /\ rafs = 0
    /\ winLoaded = FALSE
    /\ dataTheme \in [Pages -> Themes \cup {NoTheme}]
    /\ localTheme \in Themes \cup {NoTheme}
    /\ trail = [p \in Pages |-> << >>]
    /\ gallery = << >>
    /\ current = -1
    /\ lightbox = ""
    /\ imgEl = 0

\* the variables the theme script does not touch
deckVars == <<wired, cards, CURRENT_DECK, controls, filtered, incSide, incExtra, state, DRAWN, shown,
              collapse, root, active, loads, latest, loader, switching, rafs, winLoaded,
              gallery, current, lightbox, imgEl>>

\* the script of page p runs: s = getItem('theme'); if (s) setAttribute('data-theme', s)
RunThemeScript(p) ==
    /\ trail[p] = << >>
    /\ dataTheme' = [dataTheme EXCEPT ![p] = IF localTheme # NoTheme THEN localTheme ELSE @]
    /\ trail' = [trail EXCEPT ![p] = <<dataTheme'[p]>>]
    /\ ev' = Ev("themeScript", p)
    /\ UNCHANGED localTheme
    /\ UNCHANGED deckVars

\* click on #themeToggle of page p
ClickTheme(p) ==
    /\ trail[p] # << >>
    /\ Len(trail[p]) <= MaxClicks
    /\ LET c == IF dataTheme[p] = NoTheme THEN "system" ELSE dataTheme[p]
           n == nextTheme(c)
       IN  /\ dataTheme' = [dataTheme EXCEPT ![p] = n]
           /\ localTheme' = n
           /\ trail' = [trail EXCEPT ![p] = Append(@, n)]
    /\ ev' = Ev("themeClick", p)
    /\ UNCHANGED deckVars

\* page p is loaded again: the document is as served, its script has not run
Reload(p) ==
    /\ trail[p] # << >>
    /\ \E markup \in Themes \cup {NoTheme} : dataTheme' = [dataTheme EXCEPT ![p] = markup]
    /\ trail' = [trail EXCEPT ![p] = << >>]
    /\ ev' = Ev("reload", p)
    /\ UNCHANGED localTheme
    /\ UNCHANGED deckVars

ThemeNext == \E p \in Pages : RunThemeScript(p) \/ ClickTheme(p) \/ Reload(p)

ThemeSpec == ThemeInit /\ [][ThemeNext]_vars

\* the theme a page shows: an absent attribute counts as system
Effective(t) == IF t = NoTheme THEN "system" ELSE t

\* the cycle light -> system -> dark -> light
After(t) == CASE t = "light" -> "system" [] t = "system" -> "dark" [] t = "dark" -> "light"

\* C20: a click advances the page's theme along light -> system -> dark ->
\* light (absent counts as system) and stores the new theme under 'theme';
\* three clicks in a row restore the theme; when the page script runs, a
\* stored theme becomes the data-theme attribute.
C20_ThemeCycle ==
    [][/\ ev'.op = "themeClick" =>
             /\ dataTheme'[ev'.n] = After(Effective(dataTheme[ev'.n]))
             /\ localTheme' = dataTheme'[ev'.n]
       /\ \A p \in Pages : \A i \in DOMAIN trail'[p] :
             i + 3 <= Len(trail'[p]) => Effective(trail'[p][i + 3]) = Effective(trail'[p][i])
       /\ (ev'.op = "themeScript" /\ localTheme # NoTheme) =>
             dataTheme'[ev'.n] = localTheme]_vars

\* page 1 came up without attribute and without a stored theme and was
\* clicked three times: dark, light, system
C20_Witness ==
    /\ trail[1] = <<NoTheme, "dark", "light", "system">>
    /\ dataTheme[1] = "system"
    /\ localTheme = "system"

(* ------------------- overlay and buttons under loads ------------------- *)

\* the deck page with what the browser guarantees: the window "load" event
\* fires, a timer and a fetch that were started end, and a requested
\* animation frame comes
LoadLiveSpec ==
    /\ LoadSpec
    /\ WF_vars(WindowLoad)
    /\ WF_vars(FadeDone)
    /\ WF_vars(LoadResolves \/ LoadFails)
    /\ WF_vars(Frame)

\* the part of C25 about states with no load in flight: the overlay gets
\* hidden and is-switching removed
C25_SettlesHidden ==
    (loads = << >>) ~> (~loader /\ ~switching)

\* C25: while a deck load is in flight the overlay is visible; the window
\* "load" event and the frame callback of a finished crossfadeLoad leave it
\* visible if a load is still in flight; and when no load is in flight the
\* overlay is eventually hidden and is-switching removed.
C25_OverlayWhileLoading ==
    /\ [](loads # << >> => loader)
    /\ [][(ev'.op \in {"load", "frame"} /\ loads' # << >>) => loader']_vars
    /\ C25_SettlesHidden

\* C26: once the active deck button was clicked again, no button carries
\* is-active and #deck-root holds the neutral view until the user clicks a
\* deck button again, also when a load of that button is still in flight and
\* ends afterwards.
C26_DeactivationSticks ==
    [][(/\ active = {}
        /\ root = NeutralRoot
        /\ latest # 0
        /\ ev'.op \notin {"click", "deactivate"}) =>
          /\ active' = {}
          /\ root' = NeutralRoot]_vars

\* C27: at most one deck button carries is-active.
C27_OneActiveButton ==
    Cardinality(active) <= 1

(* ------------------- the ledger and the total pool --------------------- *)

\* the number of cards of identity k in the hand
CopiesInHand(k) ==
    Cardinality({i \in DOMAIN state.hand : cardKey(cards[state.hand[i]]) = k})

\* C22: in every state of the hand tester the ledger count of every card
\* identity is the number of copies of that identity in the hand; the ledger
\* is all zero when the hand is empty.
C22_LedgerCountsHand ==
    \A k \in Keys : DRAWN[k] = CopiesInHand(k)

\* the "Total pool" figure of the stats line: state.deck.length + state.hand.length
TotalPool(st) == Len(st.deck) + Len(st.hand)

\* the sum of the quantities of the sections the toggles include
IncludedQty(deck, includeSide, includeExtra) ==
    sumQty(deref(IncludedItems(deck, includeSide, includeExtra)))

\* C23 as stated: in every state of the hand tester, pool size + hand size
\* is the sum of the quantities of the included sections.
C23_TotalPoolConserved ==
    TotalPool(state) = IncludedQty(CURRENT_DECK, incSide, incExtra)

\* C23: pool size + hand size never exceeds the sum of the quantities of the
\* included sections; +1 and return-to-pool keep it; Clear keeps the pool and
\* discards the hand, so it falls to the pool size; Draw 5, Draw 6, Reshuffle
\* and the include toggles rebuild the pool, so it is that sum again.
C23_TotalPoolAccounting ==
    /\ [](TotalPool(state) <= IncludedQty(CURRENT_DECK, incSide, incExtra))
    /\ [][/\ ev'.op \in {"plus1", "return"} => TotalPool(state') = TotalPool(state)
          /\ ev'.op = "clear" =>
                /\ state'.deck = state.deck
                /\ TotalPool(state') = Len(state.deck)
          /\ ev'.op \in {"draw", "reshuffle", "toggle"} =>
                TotalPool(state') = IncludedQty(CURRENT_DECK', incSide', incExtra')]_vars

\* a card was returned to the pool after a Clear had discarded another: the
\* total stays one below the quantity of the included sections
C23_Witness ==
    /\ ev.op = "return"
    /\ TotalPool(state) + 1 = IncludedQty(CURRENT_DECK, incSide, incExtra)
    /\ Len(state.deck) >= 2

\* C24: after any number of draws, filter changes and refreshes, each filter
\* bar control of the displayed deck holds one applyFilters listener, and one
\* event on a kind checkbox or on Clear Filter runs applyFilters once.
C24_OneBindingPerControl ==
    /\ [](wired <= 1)
    /\ [][ev'.op \in {"filter", "clearFilter"} => ev'.n = 1]_vars

\* C28: a change of a filter control and the refresh it causes leave the
\* pool (cards and order), the hand and every ledger count as they were; and
\* whenever the pool is rebuilt (Reshuffle, include toggles) it is the
\* quantity expansion of the included sections of the unfiltered deck,
\* whatever the filter shows.
C28_FilterLeavesDrawState ==
    [][/\ ev'.op \in {"filter", "clearFilter"} =>
             /\ state' = state
             /\ DRAWN' = DRAWN
       /\ ev'.op \in {"reshuffle", "toggle"} =>
             /\ state'.hand = << >>
             /\ IsQtyExpansion(state'.deck, CURRENT_DECK', incSide', incExtra')]_vars

\* Monsters was just unticked while a card is in the hand and marked in
\* the ledger, and a monster that the sections no longer show is in the pool
C28_Witness ==
    /\ ev.op = "filter"
    /\ ~controls.kindMonster
    /\ state.hand # << >>
    /\ DRAWN # NoDrawn
    /\ \E i \in DOMAIN state.deck : state.deck[i] = 1
    /\ \A i \in DOMAIN shown.main.tiles : shown.main.tiles[i].src # 1

(* ------------------------------ lightbox ------------------------------- *)

\* the page state the lightbox handlers leave alone
aroundLightbox == <<root, active, loads, latest, loader, switching, rafs, winLoaded,
                    dataTheme, localTheme, trail>>

\* the deck view state the lightbox handlers leave alone
underLightbox == <<cards, CURRENT_DECK, controls, filtered, incSide, incExtra, state, DRAWN,
                   shown, collapse, wired>>

\* the src entries of a sequence of tiles
RECURSIVE tileImages(_)
tileImages(tiles) ==
    IF tiles = << >> THEN << >> ELSE <<Head(tiles).src>> \o tileImages(Tail(tiles))

\* collectGallery: querySelectorAll(".card-grid .card-img") in document order:
\* the tiles of the hand, then those of the Main, Extra and Side sections;
\* an image is written as the card it shows
collectGallery(hand, blocks) ==
    hand \o tileImages(blocks["main"].tiles) \o tileImages(blocks["extra"].tiles)
         \o tileImages(blocks["side"].tiles)

\* a showNext whose remainder keeps the sign of current + delta
showNext_signedRemainder(delta) ==
    IF gallery = << >> \/ current < 0 THEN UNCHANGED <<gallery, current, lightbox, imgEl>>
    ELSE /\ current' = IF current + delta < 0 THEN current + delta
                       ELSE (current + delta) % Len(gallery)
         /\ imgEl' = IF current' < 0 THEN 0 ELSE gallery[current' + 1]
         /\ UNCHANGED <<gallery, lightbox>>

\* showNext(delta): current = (current + delta + gallery.length) % gallery.length
showNext(delta) ==
    IF gallery = << >> \/ current < 0 THEN UNCHANGED <<gallery, current, lightbox, imgEl>>
    ELSE /\ current' = (current + delta + Len(gallery)) % Len(gallery)
         /\ imgEl' = gallery[current' + 1]
         /\ UNCHANGED <<gallery, lightbox>>

\* closeLightbox()
closeLightbox ==
    /\ lightbox' = "none"
    /\ current' = -1
    /\ UNCHANGED <<gallery, imgEl>>

\* click on the image of a section tile, the i-th image of the document: the
\* body's listener collects the gallery and calls openAt(gallery.indexOf(t)).
\* While the lightbox is displayed its backdrop lies over the tiles (a click
\* on it has the lightbox as target), so tiles are clicked when it is not.
ClickCardImage ==
    /\ lightbox # "flex"
    /\ gallery' = collectGallery(state.hand, shown)
    /\ \E i \in (Len(state.hand) + 1)..Len(gallery') :
          /\ current' = i - 1
          /\ imgEl' = gallery'[i]
          /\ ev' = Ev("open", i - 1)
    /\ lightbox' = "flex"
    /\ UNCHANGED underLightbox
    /\ UNCHANGED aroundLightbox

\* click on the image of a hand tile: the panel's listener returns the card
\* and rewrites the hand, then the body's listener collects the gallery,
\* does not find the clicked image in it and openAt(-1) returns
ClickHandImage ==
    /\ lightbox # "flex"
    /\ returnToPool
    /\ gallery' = collectGallery(state'.hand, shown')
    /\ UNCHANGED <<current, lightbox, imgEl>>
    /\ UNCHANGED aroundLightbox

\* click on the lightbox's .prev button
BtnPrev ==
    /\ showNext(-1)
    /\ ev' = Ev("showNext", -1)
    /\ UNCHANGED underLightbox
    /\ UNCHANGED aroundLightbox

\* click on the lightbox's .next button
BtnNext ==
    /\ showNext(1)
    /\ ev' = Ev("showNext", 1)
    /\ UNCHANGED underLightbox
    /\ UNCHANGED aroundLightbox

\* click on the .close button or on the backdrop
BtnClose ==
    /\ closeLightbox
    /\ ev' = Ev("close", 0)
    /\ UNCHANGED underLightbox
    /\ UNCHANGED aroundLightbox

KeyNames == {"ArrowLeft", "ArrowRight", "Escape", "Enter"}

\* keydown: nothing unless the lightbox is displayed; the arrows navigate,
\* Escape closes, other keys do nothing
KeyDown ==
    /\ \E key \in KeyNames :
          IF lightbox # "flex" \/ key = "Enter"
          THEN /\ ev' = Ev("keydown", 0)
               /\ UNCHANGED <<gallery, current, lightbox, imgEl>>
          ELSE IF key = "ArrowLeft" THEN showNext(-1) /\ ev' = Ev("showNext", -1)
          ELSE IF key = "ArrowRight" THEN showNext(1) /\ ev' = Ev("showNext", 1)
          ELSE closeLightbox /\ ev' = Ev("close", 0)
    /\ UNCHANGED underLightbox
    /\ UNCHANGED aroundLightbox

\* +1 while the lightbox is not displayed
PlusOneBehind ==
    /\ lightbox # "flex"
    /\ Plus1

LightboxNext ==
    \/ ClickCardImage
    \/ ClickHandImage
    \/ BtnPrev
    \/ BtnNext
    \/ BtnClose
    \/ KeyDown
    \/ PlusOneBehind

LightboxSpec == Init /\ [][LightboxNext]_vars

\* C21: while the lightbox is displayed, current is a valid index of the
\* collected gallery, and current is -1 exactly when it is not displayed;
\* next and previous move by one and wrap around at the ends, the image
\* shown is the one at current, next followed by previous comes back to the
\* same index, and a navigation request while it is not displayed changes
\* nothing.
C21_LightboxIndexValid ==
    /\ []((lightbox = "flex" => (0 <= current /\ current < Len(gallery)))
          /\ ((current = -1) <=> (lightbox # "flex")))
    /\ [][ev'.op = "showNext" =>
             IF lightbox = "flex"
             THEN LET n == Len(gallery)
                      d == ev'.n
                      to == IF current + d = n THEN 0
                            ELSE IF current + d < 0 THEN n - 1 ELSE current + d
                      back == IF to - d = n THEN 0
                              ELSE IF to - d < 0 THEN n - 1 ELSE to - d
                  IN  /\ current' = to
                      /\ back = current
                      /\ imgEl' = gallery[to + 1]
                      /\ gallery' = gallery /\ lightbox' = "flex"
             ELSE UNCHANGED <<gallery, current, lightbox, imgEl>>]_vars
    /\ [][(ev'.op = "keydown" /\ lightbox # "flex") =>
             UNCHANGED <<gallery, current, lightbox, imgEl>>]_vars

\* the lightbox shows the first image of a gallery of at least two after
\* "next" was asked for on the last one
C21_Witness ==
    /\ lightbox = "flex"
    /\ Len(gallery) >= 2
    /\ current = 0
    /\ ev = Ev("showNext", 1)
    /\ imgEl = gallery[1]

====
